---- MODULE Spec2Model ----
(***************************************************************************)
(* The real-time audio relay of the voice agent backend.                   *)
(*                                                                         *)
(* Spec: one call leg in detail, i.e. session setup (create_session), the  *)
(* telephony->model pump (handle_twilio_to_openai), the model->telephony   *)
(* pump (handle_openai_to_twilio, driven by handle_rag_integration) and    *)
(* the endpoint that runs both under asyncio.gather and then cleans up.    *)
(* SpecRag: the same call leg with the retrieval consumer of               *)
(* handle_rag_integration and the conversation log.                        *)
(* SpecEndpoint: several connections to the media-stream endpoint of one   *)
(* call session, each ending in cleanup_call_session.                      *)
(* SpecLegs: several call legs, each with its own session record, at the   *)
(* granularity of one inbound event.                                       *)
(*                                                                         *)
(* The two pumps are coroutines on one event loop: a pump runs without     *)
(* interruption between two awaits, and the other pump may run at every    *)
(* await.  Each await of the code is therefore a position (tpc, mpc) and   *)
(* each action is the code between two awaits.                             *)
(***************************************************************************)
EXTENDS Integers, Sequences, FiniteSets, TLC

\* ------------------------------------------------------------- bounds
\* Largest media timestamp the telephony side reports (milliseconds).
MaxTs == 2
\* Most media frames relayed to telephony between two interruption resets,
\* counting the marks of earlier responses that are still unacknowledged.
MaxMarks == 2
\* Most entries of the conversation log.
MaxLog == 2

\* ------------------------------------------------------ input alphabets
StreamSids == {"MZ1"}
ItemIds == {"item_1", "item_2"}
\* base64 payloads of response.audio.delta: canonical, with a character
\* outside the alphabet, and undecodable.
DeltaPayloads == {"QUJD", "QUJD ", "Q"}
MediaPayloads == {"fn5+"}

\* Python's None, and a present value.
None == << >>
Some(x) == << x >>
IsSet(o) == o # None
Val(o) == o[1]

\* create_session's initial_greeting: the default, an empty text, a text.
Greetings == {None, Some(""), Some("Hello")}
\* The call session id of the URL, and the connections made to its endpoint.
SessionIds == {"CS1"}
Conns == {"c1", "c2"}
\* Call legs of different call sessions.
Legs == {"A", "B"}

VARIABLES
    \* session_data (create_session)
    stream_sid,                 \* session_data.get("stream_sid")
    latest_media_timestamp,
    response_start_timestamp,
    last_assistant_item,
    mark_queue,
    is_active,
    \* the two transports
    openai_open,                \* session_data["websocket"] is open
    twilio_open,                \* the telephony websocket is open
    \* the coroutines
    tpc,                        \* handle_twilio_to_openai
    mpc,                        \* handle_openai_to_twilio / handle_rag_integration
    response,                   \* the model event being handled (local `response`)
    tsend,                      \* the frame the telephony pump is sending
    msend,                      \* the frame the model pump is sending
    dpc,                        \* media_stream_endpoint, from create_session on
    hooks,                      \* the callbacks are the lambdas main.py passes
    greeting,                   \* create_session's initial_greeting
    \* the call session (main.py)
    active_sessions,            \* ids registered in active_sessions
    azure_session,              \* call_session.azure_session: whose record
    conversation_log,           \* call_session.conversation_log
    metric_saves,               \* calls of supabase_service.save_call_metrics
    \* SpecEndpoint: the connections to the endpoint of one call session
    epc,                        \* media_stream_endpoint of each connection
    legws,                      \* each connection's session record and socket
    \* SpecLegs: the call legs
    legs,                       \* each leg's session record
    lpc,                        \* each leg's two pumps and its model socket
    outbox,                     \* legs on whose transports the last step sent
    \* history variables (not program state)
    setupSent,                  \* frames create_session has sent so far
    last,                       \* the inbound event received last, either pump
    audioSends,                 \* media frames delivered since the last reset
    sentMarks,                  \* mark frames delivered since the last reset
    ackedMarks,                 \* acknowledgments that popped a token since then
    playing,                    \* response cycle: audio relayed, not yet ended
    firstTs,                    \* latest_media_timestamp at the first audio of it
    lateAcks                    \* marks a reset removed, not yet acknowledged

session == << stream_sid, latest_media_timestamp, response_start_timestamp,
              last_assistant_item, mark_queue, is_active >>
relay == << stream_sid, latest_media_timestamp, response_start_timestamp,
            last_assistant_item, mark_queue >>
transports == << openai_open, twilio_open >>
history == << audioSends, sentMarks, ackedMarks, playing, firstTs,
             lateAcks >>
pumps == << tpc, mpc, response, tsend, msend >>
callSession == << active_sessions, azure_session, conversation_log,
                  metric_saves >>
endpoints == << epc, legws >>
callLegs == << legs, lpc, outbox >>
\* What no step of the two pumps changes.
rest == << hooks, greeting, setupSent, callSession, endpoints, callLegs >>
vars == << session, transports, pumps, dpc, last, history, rest >>

NoResponse == [type |-> "none"]

\* The session record create_session builds and returns (no stream_sid key).
NewSession ==
    [is_active |-> TRUE, latest_media_timestamp |-> 0,
     last_assistant_item |-> None, mark_queue |-> << >>,
     response_start_timestamp |-> None, stream_sid |-> None]

\* A connection that has not reached the endpoint, and one without a record.
NoConn == [pc |-> "idle", target |-> None, close_error |-> FALSE]
NoSocket == [open |-> FALSE, is_active |-> FALSE, closes |-> 0]

\* The pumps of a leg between two events, its model socket open.
LegWaits == [pc |-> "wait", item |-> None, tpc |-> "wait", open |-> TRUE]

\* The variables of the other specifications, at rest.
EndpointsIdle ==
    /\ epc = [c \in Conns |-> NoConn]
    /\ legws = [c \in Conns |-> NoSocket]
LegsIdle ==
    /\ legs = [l \in Legs |-> NewSession]
    /\ lpc = [l \in Legs |-> LegWaits]
    /\ outbox = {}

\* media_stream_endpoint has accepted the connection and found the call
\* session registered (/incoming-call); create_session is called with one of
\* the greetings and awaits websockets.connect.  No record exists yet and no
\* pump runs.
\* hooks: the pumps run with the callbacks media_stream_endpoint passes
\* (lambdas that return None), or with none (the parameters' default).
Init ==
    /\ stream_sid = None
    /\ latest_media_timestamp = 0
    /\ response_start_timestamp = None
    /\ last_assistant_item = None
    /\ mark_queue = << >>
    /\ is_active = FALSE
    /\ openai_open = TRUE
    /\ twilio_open = TRUE
    /\ tpc = "new"
    /\ mpc = "new"
    /\ response = NoResponse
    /\ tsend = None
    /\ msend = None
    /\ dpc = "create_session"
    /\ hooks \in BOOLEAN
    /\ greeting \in Greetings
    /\ active_sessions = SessionIds
    /\ azure_session = None
    /\ conversation_log = << >>
    /\ metric_saves = 0
    /\ EndpointsIdle
    /\ LegsIdle
    /\ setupSent = << >>
    /\ last = "init"
    /\ audioSends = 0
    /\ sentMarks = 0
    /\ ackedMarks = 0
    /\ playing = FALSE
    /\ firstTs = 0
    /\ lateAcks = 0

\* ------------------------------------------------------------- frames
AudioAppend(p) == [type |-> "input_audio_buffer.append", audio |-> p]
TruncateEvent(item, ms) ==
    [type |-> "conversation.item.truncate", item_id |-> item,
     content_index |-> 0, audio_end_ms |-> ms]
TwilioMedia(sid, p) == [event |-> "media", streamSid |-> sid, payload |-> p]
TwilioMark(sid) == [event |-> "mark", streamSid |-> sid, name |-> "responsePart"]
TwilioClear(sid) == [event |-> "clear", streamSid |-> sid]

\* _initialize_session's session_update (voice, instructions, temperature
\* and the token limit are call parameters and left out).
SessionUpdate ==
    [type |-> "session.update", turn_detection |-> "server_vad",
     input_audio_format |-> "g711_ulaw", output_audio_format |-> "g711_ulaw",
     modalities |-> << "text", "audio" >>]
\* _send_initial_greeting's two frames
GreetingItem(text) ==
    [type |-> "conversation.item.create", role |-> "user",
     content_type |-> "input_text", text |-> << "Please say: ", text >>]
ResponseCreate == [type |-> "response.create"]

\* ===================================================================
\* create_session, called by media_stream_endpoint
\* ===================================================================
\* A slip GreetingGiven could have: `is not None` for the truth test.
GreetingNotNone(g) == g # None

\* if initial_greeting: (None and the empty text are false)
GreetingGiven(g) == g # None /\ Val(g) # ""

\* An exception leaves create_session (except: log, raise) and is caught by
\* media_stream_endpoint, whose finally clause calls cleanup_call_session.
CreateSessionRaises ==
    /\ dpc' = "cleanup"
    /\ greeting' = None
    /\ setupSent' = << >>

\* await websockets.connect(...) returns, and _initialize_session builds
\* session_update and awaits its send; or the connection fails.
CreateSessionConnect ==
    /\ dpc = "create_session"
    /\ IF openai_open
         THEN /\ dpc' = "session_update_send"
              /\ UNCHANGED << greeting, setupSent >>
         ELSE CreateSessionRaises
    /\ UNCHANGED << session, transports, pumps, last, history, hooks,
                    callSession, endpoints, callLegs >>

\* await websocket.send(json.dumps(session_update)) returns; with a greeting,
\* _send_initial_greeting builds initial_item and awaits its send.
SessionUpdateDone ==
    /\ dpc = "session_update_send"
    /\ IF openai_open
         THEN /\ setupSent' = Append(setupSent, SessionUpdate)
              /\ dpc' = IF GreetingGiven(greeting) THEN "greeting_item_send"
                                                   ELSE "session_ready"
              /\ UNCHANGED greeting
         ELSE CreateSessionRaises
    /\ UNCHANGED << session, transports, pumps, last, history, hooks,
                    callSession, endpoints, callLegs >>

\* await websocket.send(json.dumps(initial_item)) returns
GreetingItemDone ==
    /\ dpc = "greeting_item_send"
    /\ IF openai_open
         THEN /\ setupSent' = Append(setupSent, GreetingItem(Val(greeting)))
              /\ dpc' = "greeting_response_send"
              /\ UNCHANGED greeting
         ELSE CreateSessionRaises
    /\ UNCHANGED << session, transports, pumps, last, history, hooks,
                    callSession, endpoints, callLegs >>

\* await websocket.send(json.dumps({"type": "response.create"})) returns
GreetingResponseDone ==
    /\ dpc = "greeting_response_send"
    /\ IF openai_open
         THEN /\ setupSent' = Append(setupSent, ResponseCreate)
              /\ dpc' = "session_ready"
              /\ UNCHANGED greeting
         ELSE CreateSessionRaises
    /\ UNCHANGED << session, transports, pumps, last, history, hooks,
                    callSession, endpoints, callLegs >>

\* create_session builds session_data and returns it; media_stream_endpoint
\* stores it in call_session.azure_session and starts both pumps under
\* asyncio.gather.
CreateSessionReturns ==
    /\ dpc = "session_ready"
    /\ is_active' = NewSession.is_active
    /\ latest_media_timestamp' = NewSession.latest_media_timestamp
    /\ last_assistant_item' = NewSession.last_assistant_item
    /\ mark_queue' = NewSession.mark_queue
    /\ response_start_timestamp' = NewSession.response_start_timestamp
    /\ stream_sid' = NewSession.stream_sid
    /\ azure_session' = Some("c1")
    /\ tpc' = "wait"
    /\ mpc' = "wait"
    /\ dpc' = "gather"
    /\ greeting' = None
    /\ setupSent' = << >>
    /\ UNCHANGED << transports, response, tsend, msend, last, history, hooks,
                    active_sessions, conversation_log, metric_saves,
                    endpoints, callLegs >>

\* ===================================================================
\* handle_twilio_to_openai: the telephony->model pump
\* ===================================================================
TelephonyIdle == tpc = "wait" /\ twilio_open

\* session_data["latest_media_timestamp"] = int(data['media']['timestamp'])
StoreTimestamp(old, ts) == ts

\* event == 'media': store the timestamp, build audio_append, await the send.
TwilioMediaReceive(ts, p) ==
    /\ TelephonyIdle
    /\ latest_media_timestamp' = StoreTimestamp(latest_media_timestamp, ts)
    /\ tsend' = Some(AudioAppend(p))
    /\ tpc' = "append_send"
    /\ last' = "twilio:media"
    /\ UNCHANGED << stream_sid, response_start_timestamp, last_assistant_item,
                    mark_queue, is_active, transports, mpc, response, msend,
                    dpc, rest, history >>

\* await openai_ws.send(...) returns, or raises when the connection is closed;
\* the exception leaves the pump (except: log, raise).
TwilioAppendDone ==
    /\ tpc = "append_send"
    /\ tpc' = IF openai_open THEN "wait" ELSE "failed"
    /\ tsend' = None
    /\ UNCHANGED << session, transports, mpc, response, msend, dpc, rest,
                    last, history >>

\* The pump after on_session_start is called and its result awaited: the
\* lambda of main.py returns None, and awaiting None raises TypeError.
AfterSessionStart == IF hooks THEN "failed" ELSE "wait"

\* A slip TwilioStart could have: the start of a stream empties mark_queue.
TwilioStartClearsMarks(sid) ==
    /\ TelephonyIdle
    /\ stream_sid' = Some(sid)
    /\ response_start_timestamp' = None
    /\ latest_media_timestamp' = 0
    /\ last_assistant_item' = None
    /\ mark_queue' = << >>
    /\ tpc' = AfterSessionStart
    /\ playing' = FALSE
    /\ firstTs' = 0
    /\ last' = "twilio:start"
    /\ UNCHANGED << is_active, transports, mpc, response, tsend, msend, dpc,
                    rest, audioSends, sentMarks, ackedMarks, lateAcks >>

\* A slip TwilioStart could have: the anchor of the response is not reset.
TwilioStartKeepsAnchor(sid) ==
    /\ TelephonyIdle
    /\ stream_sid' = Some(sid)
    /\ latest_media_timestamp' = 0
    /\ last_assistant_item' = None
    /\ tpc' = AfterSessionStart
    /\ playing' = FALSE
    /\ firstTs' = 0
    /\ last' = "twilio:start"
    /\ UNCHANGED << response_start_timestamp, mark_queue, is_active,
                    transports, mpc, response, tsend, msend, dpc, rest,
                    audioSends, sentMarks, ackedMarks, lateAcks >>

\* event == 'start'
TwilioStart(sid) ==
    /\ TelephonyIdle
    /\ stream_sid' = Some(sid)
    /\ response_start_timestamp' = None
    /\ latest_media_timestamp' = 0
    /\ last_assistant_item' = None
    /\ tpc' = AfterSessionStart
    /\ playing' = FALSE
    /\ firstTs' = 0
    /\ last' = "twilio:start"
    /\ UNCHANGED << mark_queue, is_active, transports, mpc, response, tsend,
                    msend, dpc, rest, audioSends, sentMarks, ackedMarks, lateAcks >>

\* A slip PopMark could have: the acknowledgment empties the queue.
PopMarkAll(q) == << >>

\* A slip PopMark could have: the acknowledgment removes two tokens.
PopMarkTwo(q) == IF Len(q) >= 2 THEN Tail(Tail(q)) ELSE << >>

\* if session_data["mark_queue"]: session_data["mark_queue"].pop(0)
PopMark(q) == IF q # << >> THEN Tail(q) ELSE q

\* event == 'mark'
TwilioMarkAck ==
    /\ TelephonyIdle
    /\ mark_queue' = PopMark(mark_queue)
    /\ ackedMarks' = IF mark_queue # << >> THEN ackedMarks + 1 ELSE ackedMarks
    /\ lateAcks' = IF lateAcks > 0 THEN lateAcks - 1 ELSE lateAcks
    /\ last' = "twilio:mark"
    /\ UNCHANGED << stream_sid, latest_media_timestamp, response_start_timestamp,
                    last_assistant_item, is_active, transports, pumps, dpc,
                    rest, audioSends, sentMarks, playing, firstTs >>

\* The pump after an event that no branch of the if/elif chain matches:
\* 'stop' has no branch, the loop awaits the next message.
AfterStop == "wait"

\* event == 'stop'
TwilioStop ==
    /\ TelephonyIdle
    /\ tpc' = AfterStop
    /\ last' = "twilio:stop"
    /\ UNCHANGED << session, transports, mpc, response, tsend, msend, dpc,
                    rest, history >>

\* event == 'connected' (any other event name): no branch.
TwilioConnected ==
    /\ TelephonyIdle
    /\ last' = "twilio:connected"
    /\ UNCHANGED << session, transports, pumps, dpc, rest, history >>

\* json.loads raises, data['event'] raises KeyError, int(timestamp) raises
\* ValueError: each before any assignment, and each leaves the pump.  (A
\* media frame without 'media', a start frame without 'start' or 'streamSid'
\* raise KeyError before any assignment as well.)
MalformedKinds == {"bad_json", "no_event", "bad_timestamp"}

TwilioMalformed(kind) ==
    /\ TelephonyIdle
    /\ kind \in MalformedKinds
    /\ tpc' = "failed"
    /\ last' = "twilio:malformed"
    /\ UNCHANGED << session, transports, mpc, response, tsend, msend, dpc,
                    rest, history >>

\* event == 'media' with a timestamp and no 'payload': the timestamp is
\* stored (line 151), then data['media']['payload'] raises KeyError while the
\* frame for the model is built; nothing is sent and the exception leaves the
\* pump.
TwilioMediaNoPayload(ts) ==
    /\ TelephonyIdle
    /\ latest_media_timestamp' = StoreTimestamp(latest_media_timestamp, ts)
    /\ tpc' = "failed"
    /\ last' = "twilio:malformed"
    /\ UNCHANGED << stream_sid, response_start_timestamp, last_assistant_item,
                    mark_queue, is_active, transports, mpc, response, tsend,
                    msend, dpc, rest, history >>

\* twilio_ws.iter_text() on a closed connection: the iteration ends on the
\* disconnect message, or the receive raises.
TwilioClosed(outcome) ==
    /\ tpc = "wait"
    /\ ~twilio_open
    /\ tpc' = outcome
    /\ UNCHANGED << session, transports, mpc, response, tsend, msend, dpc,
                    rest, last, history >>

\* ===================================================================
\* handle_openai_to_twilio, consumed by handle_rag_integration: the
\* model->telephony pump.  An exception that leaves handle_openai_to_twilio
\* is caught by handle_rag_integration, which then returns normally.
\* ===================================================================
ModelIdle == mpc = "wait" /\ openai_open

\* base64.b64decode discards characters outside the alphabet and raises on
\* a wrong number of data characters; b64encode writes the canonical form.
B64Decodable(p) == p # "Q"
B64Roundtrip(p) == IF p = "QUJD " THEN "QUJD" ELSE p

\* type == 'response.audio.delta' with a 'delta' field: _handle_audio_delta
\* re-encodes the payload, builds the media frame and awaits its send.  A
\* decode error is logged inside _handle_audio_delta and the event dropped.
OpenAIDeltaReceive(item, p) ==
    /\ ModelIdle
    /\ audioSends + lateAcks < MaxMarks
    /\ IF B64Decodable(p)
         THEN /\ response' = [type |-> "response.audio.delta", item_id |-> item]
              /\ msend' = Some(TwilioMedia(stream_sid, B64Roundtrip(p)))
              /\ mpc' = "media_send"
         ELSE /\ response' = NoResponse
              /\ msend' = None
              /\ mpc' = "wait"
    /\ last' = "openai:audio_delta"
    /\ UNCHANGED << session, transports, tpc, tsend, dpc, rest, history >>

\* if session_data["response_start_timestamp"] is None: ... = latest
\* A slip AnchorResponse could have: the anchor is left as it was, so that an
\* item id is recorded with no anchor set.
AnchorResponseNever(rst, latest) == rst

AnchorResponse(rst, latest) == IF rst = None THEN Some(latest) ELSE rst

\* if response.get('item_id'): session_data["last_assistant_item"] = ...
RecordItem(old, item) == IF IsSet(item) THEN item ELSE old

\* _send_mark sends a mark only with a stream id: if stream_sid: ...
MarkWanted(sid) == IsSet(sid)

\* await twilio_ws.send_json(audio_delta) returns: anchor the response, record
\* the item, then _send_mark: with a stream id, build the mark and await its
\* send.  When the send raises, _handle_audio_delta logs and returns.
OpenAIMediaDone ==
    /\ mpc = "media_send"
    /\ IF twilio_open
         THEN /\ response_start_timestamp' =
                     AnchorResponse(response_start_timestamp, latest_media_timestamp)
              /\ last_assistant_item' = RecordItem(last_assistant_item, response.item_id)
              /\ audioSends' = audioSends + 1
              /\ playing' = TRUE
              /\ firstTs' = IF playing THEN firstTs ELSE latest_media_timestamp
              /\ IF MarkWanted(stream_sid)
                   THEN /\ msend' = Some(TwilioMark(Val(stream_sid)))
                        /\ mpc' = "mark_send"
                        /\ response' = response
                   ELSE /\ msend' = None
                        /\ mpc' = "wait"
                        /\ response' = NoResponse
         ELSE /\ msend' = None
              /\ mpc' = "wait"
              /\ response' = NoResponse
              /\ UNCHANGED << response_start_timestamp, last_assistant_item,
                              audioSends, playing, firstTs >>
    /\ UNCHANGED << stream_sid, latest_media_timestamp, mark_queue, is_active,
                    transports, tpc, tsend, dpc, rest, last, sentMarks,
                    ackedMarks, lateAcks >>

\* session_data["mark_queue"].append('responsePart'), after the mark is sent
AppendMark(q) == Append(q, "responsePart")

\* await twilio_ws.send_json(mark_event) returns, or raises (logged in
\* _send_mark, nothing appended).
\* A slip OpenAIMarkDone could have: the token is appended although the send
\* of the mark failed.
OpenAIMarkDoneAppendsAnyway ==
    /\ mpc = "mark_send"
    /\ mark_queue' = AppendMark(mark_queue)
    /\ sentMarks' = IF twilio_open THEN sentMarks + 1 ELSE sentMarks
    /\ msend' = None
    /\ mpc' = "wait"
    /\ response' = NoResponse
    /\ UNCHANGED << stream_sid, latest_media_timestamp, response_start_timestamp,
                    last_assistant_item, is_active, transports, tpc, tsend, dpc,
                    rest, last, audioSends, ackedMarks, playing, firstTs,
                    lateAcks >>

OpenAIMarkDone ==
    /\ mpc = "mark_send"
    /\ IF twilio_open
         THEN /\ mark_queue' = AppendMark(mark_queue)
              /\ sentMarks' = sentMarks + 1
         ELSE UNCHANGED << mark_queue, sentMarks >>
    /\ msend' = None
    /\ mpc' = "wait"
    /\ response' = NoResponse
    /\ UNCHANGED << stream_sid, latest_media_timestamp, response_start_timestamp,
                    last_assistant_item, is_active, transports, tpc, tsend, dpc,
                    rest, last, audioSends, ackedMarks, playing, firstTs,
                    lateAcks >>

\* A slip InFlight could have: `or` for `and`.
InFlightEither(q, rst) == q # << >> \/ rst # None

\* if session_data["mark_queue"] and response_start_timestamp is not None
InFlight(q, rst) == q # << >> /\ rst # None

\* A slip ElapsedTime could have: the operands exchanged.
ElapsedTimeSwapped(latest, rst) == rst - latest

\* elapsed_time = latest_media_timestamp - response_start_timestamp
ElapsedTime(latest, rst) == latest - rst

\* The pump after _handle_speech_interruption returns: on_speech_started is
\* called and its result awaited; the lambda of main.py returns None,
\* awaiting None raises TypeError, and the pump ends.
AfterSpeechStarted == IF hooks THEN "done" ELSE "wait"

\* type == 'input_audio_buffer.speech_started': _handle_speech_interruption up
\* to its first await (the truncate send, or the clear send without an item).
OpenAISpeechStarted ==
    /\ ModelIdle
    /\ IF InFlight(mark_queue, response_start_timestamp)
         THEN IF IsSet(last_assistant_item)
                THEN /\ msend' = Some(TruncateEvent(Val(last_assistant_item),
                                      ElapsedTime(latest_media_timestamp,
                                                  Val(response_start_timestamp))))
                     /\ mpc' = "truncate_send"
                ELSE /\ msend' = Some(TwilioClear(stream_sid))
                     /\ mpc' = "clear_send"
         ELSE /\ msend' = None
              /\ mpc' = AfterSpeechStarted
    /\ last' = "openai:speech_started"
    /\ UNCHANGED << session, transports, tpc, response, tsend, dpc, rest,
                    history >>

\* await session_data["websocket"].send(truncate_event) returns, and the clear
\* frame is built and its send awaited; or it raises, which
\* _handle_speech_interruption logs before it returns.
OpenAITruncateDone ==
    /\ mpc = "truncate_send"
    /\ IF openai_open
         THEN /\ msend' = Some(TwilioClear(stream_sid))
              /\ mpc' = "clear_send"
         ELSE /\ msend' = None
              /\ mpc' = AfterSpeechStarted
    /\ UNCHANGED << session, transports, tpc, response, tsend, dpc, rest,
                    last, history >>

\* await twilio_ws.send_json({"event": "clear", ...}) returns, and the state is
\* reset; or it raises, which is logged, and the reset is not reached.
OpenAIClearDone ==
    /\ mpc = "clear_send"
    /\ IF twilio_open
         THEN /\ mark_queue' = << >>
              /\ last_assistant_item' = None
              /\ response_start_timestamp' = None
              /\ audioSends' = 0
              /\ sentMarks' = 0
              /\ ackedMarks' = 0
              /\ lateAcks' = lateAcks + Len(mark_queue)
              /\ playing' = FALSE
              /\ firstTs' = 0
         ELSE UNCHANGED << mark_queue, last_assistant_item,
                           response_start_timestamp, history >>
    /\ msend' = None
    /\ mpc' = AfterSpeechStarted
    /\ UNCHANGED << stream_sid, latest_media_timestamp, is_active, transports,
                    tpc, response, tsend, dpc, rest, last >>

\* The events handle_openai_to_twilio yields to handle_rag_integration.
SideEvents == {"conversation.item.created",
               "response.function_call_arguments.delta", "response.done"}

\* What handle_openai_to_twilio yields for an inbound event of a type: one
\* event, tagged with session_data["session_id"], for the three types of
\* SideEvents, and nothing for any other type.
Yields(type, sid) ==
    IF type = "conversation.item.created"
      THEN << [type |-> "conversation_item", session_id |-> sid] >>
    ELSE IF type = "response.function_call_arguments.delta"
      THEN << [type |-> "rag_query", session_id |-> sid] >>
    ELSE IF type = "response.done"
      THEN << [type |-> "response_complete", session_id |-> sid] >>
    ELSE << >>

\* A slip AfterSideEvent could have: the end of a response clears its anchor.
AfterResponseDoneReset(type, rst) == IF type = "response.done" THEN None ELSE rst

\* response_start_timestamp after a yielded event: no branch assigns it.
AfterSideEvent(type, rst) == rst

\* conversation.item.created (an item without text content) /
\* response.function_call_arguments.delta (as the model transport sends it,
\* without an "arguments" object) / response.done: yielded; the consumer
\* logs nothing and touches no field of the session record.  Items with text
\* and queries with a question are OpenAIItemCreated and OpenAIRagQuery.
OpenAISideEvent(type) ==
    /\ ModelIdle
    /\ type \in SideEvents
    /\ response_start_timestamp' = AfterSideEvent(type, response_start_timestamp)
    /\ playing' = IF type = "response.done" THEN FALSE ELSE playing
    /\ firstTs' = IF type = "response.done" THEN 0 ELSE firstTs
    /\ last' = IF type = "response.done" THEN "openai:response_done"
                                         ELSE "openai:side_event"
    /\ UNCHANGED << stream_sid, latest_media_timestamp, last_assistant_item,
                    mark_queue, is_active, transports, pumps, dpc, rest,
                    audioSends, sentMarks, ackedMarks, lateAcks >>

\* Event types with no branch (or whose callback is not given).
OtherEvents == {"error", "session.updated", "response.text.delta"}

\* A slip OpenAIOtherEvent could have: an error event ends the pump.
OpenAIErrorFatal(type) ==
    /\ ModelIdle
    /\ type \in OtherEvents
    /\ mpc' = IF type = "error" THEN "done" ELSE "wait"
    /\ last' = IF type = "error" THEN "openai:error" ELSE "openai:other_event"
    /\ UNCHANGED << session, transports, tpc, response, tsend, msend, dpc,
                    rest, history >>

\* 'error' is logged (log_event_types) and matches no branch, like the other
\* types: the loop takes the next message.
OpenAIOtherEvent(type) ==
    /\ ModelIdle
    /\ type \in OtherEvents
    /\ last' = IF type = "error" THEN "openai:error" ELSE "openai:other_event"
    /\ UNCHANGED << session, transports, pumps, dpc, rest, history >>

\* json.loads raises, or response['type'] raises KeyError: the exception
\* leaves handle_openai_to_twilio and ends handle_rag_integration.
OpenAIMalformed(kind) ==
    /\ ModelIdle
    /\ kind \in {"bad_json", "no_type"}
    /\ mpc' = "done"
    /\ last' = "openai:malformed"
    /\ UNCHANGED << session, transports, tpc, response, tsend, msend, dpc,
                    rest, history >>

\* async for openai_message in openai_ws, on a closed connection.
OpenAIClosed ==
    /\ mpc = "wait"
    /\ ~openai_open
    /\ mpc' = "done"
    /\ UNCHANGED << session, transports, tpc, response, tsend, msend, dpc,
                    rest, last, history >>

\* ===================================================================
\* The remote ends
\* ===================================================================
OpenAIRemoteClose ==
    /\ openai_open
    /\ openai_open' = FALSE
    /\ UNCHANGED << session, twilio_open, pumps, dpc, rest, last, history >>

TwilioRemoteClose ==
    /\ twilio_open
    /\ twilio_open' = FALSE
    /\ UNCHANGED << session, openai_open, pumps, dpc, rest, last, history >>

\* ===================================================================
\* media_stream_endpoint: asyncio.gather of the two pumps, then the finally
\* clause
\* ===================================================================
\* gather returns when both coroutines have returned, and raises at once when
\* one raises; handle_rag_integration never raises.
GatherOver(t, m) == t = "failed" \/ (t = "done" /\ m = "done")

GatherReturns ==
    /\ dpc = "gather"
    /\ GatherOver(tpc, mpc)
    /\ dpc' = "cleanup"
    /\ UNCHANGED << session, transports, pumps, rest, last, history >>

\* cleanup_call_session, for a registered call session, up to the await in
\* close_session: the summary of a non-empty log (generate_conversation_summary
\* answers with a fixed text when it fails); one save_call_metrics call;
\* with a record in azure_session, close_session sets is_active = False and
\* awaits websocket.close() (the id is registered still).  Without a record:
\* del active_sessions[id], and websocket_manager.disconnect finds no
\* connection under the id, because media_stream_endpoint never registers
\* its websocket with the manager.  An unregistered id: return.
\* The awaits of the summary and of the save come before any assignment to
\* the record; the pump steps that run during them are the steps taken
\* while dpc = "cleanup".
CleanupCallSession ==
    /\ dpc = "cleanup"
    /\ IF "CS1" \in active_sessions
         THEN /\ metric_saves' = metric_saves + 1
              /\ IF IsSet(azure_session)
                   THEN /\ is_active' = FALSE
                        /\ dpc' = "close"
                        /\ UNCHANGED active_sessions
                   ELSE /\ active_sessions' = active_sessions \ {"CS1"}
                        /\ dpc' = "returned"
                        /\ UNCHANGED is_active
         ELSE /\ dpc' = "returned"
              /\ UNCHANGED << metric_saves, is_active, active_sessions >>
    /\ UNCHANGED << relay, transports, pumps, last, history, hooks, greeting,
                    setupSent, azure_session, conversation_log, endpoints,
                    callLegs >>

\* await session_data["websocket"].close() returns (or raises, which
\* close_session logs): the model connection is closed; then
\* del active_sessions[id], the disconnect that finds nothing, and the
\* endpoint returns.  A pump that has not ended runs until then.
CloseSessionDone ==
    /\ dpc = "close"
    /\ openai_open' = FALSE
    /\ active_sessions' = active_sessions \ {"CS1"}
    /\ dpc' = "returned"
    /\ UNCHANGED << session, twilio_open, pumps, last, history, hooks,
                    greeting, setupSent, azure_session, conversation_log,
                    metric_saves, endpoints, callLegs >>

Next ==
    \/ CreateSessionConnect
    \/ SessionUpdateDone
    \/ GreetingItemDone
    \/ GreetingResponseDone
    \/ CreateSessionReturns
    \/ \E ts \in 0..MaxTs, p \in MediaPayloads : TwilioMediaReceive(ts, p)
    \/ TwilioAppendDone
    \/ \E sid \in StreamSids : TwilioStart(sid)
    \/ TwilioMarkAck
    \/ TwilioStop
    \/ TwilioConnected
    \/ \E kind \in MalformedKinds : TwilioMalformed(kind)
    \/ \E ts \in 0..MaxTs : TwilioMediaNoPayload(ts)
    \/ \E outcome \in {"done", "failed"} : TwilioClosed(outcome)
    \/ \E item \in {None} \cup {Some(i) : i \in ItemIds}, p \in DeltaPayloads :
           OpenAIDeltaReceive(item, p)
    \/ OpenAIMediaDone
    \/ OpenAIMarkDone
    \/ OpenAISpeechStarted
    \/ OpenAITruncateDone
    \/ OpenAIClearDone
    \/ \E type \in SideEvents : OpenAISideEvent(type)
    \/ \E type \in OtherEvents : OpenAIOtherEvent(type)
    \/ \E kind \in {"bad_json", "no_type"} : OpenAIMalformed(kind)
    \/ OpenAIClosed
    \/ OpenAIRemoteClose
    \/ TwilioRemoteClose
    \/ GatherReturns
    \/ CleanupCallSession
    \/ CloseSessionDone

\* ===================================================================
\* handle_rag_integration: the consumer of the events the model pump yields
\* ===================================================================
\* event["data"].get("arguments", {}).get("question", ""): the empty text
\* also stands for an event without arguments or without a question.
Questions == {"", "opening hours?"}
\* rag_response.answer: an answer of the retrieval service (status 200 with
\* an 'answer'), and the texts query_knowledge_base answers with on a 200
\* body without 'answer', on another status, and when the lookup raises.
Answers ==
    { "9 to 5",
      "I couldn't find relevant information.",
      "I'm sorry, I'm having trouble accessing the information right now.",
      "I'm experiencing technical difficulties. Please try rephrasing your question." }
\* item["content"] of conversation.item.created
Contents ==
    { << >>,
      << [type |-> "text", text |-> "hi"] >>,
      << [type |-> "audio", text |-> ""], [type |-> "text", text |-> "hi"] >>,
      << [type |-> "text", text |-> "hi"], [type |-> "text", text |-> "bye"] >> }
Items == [role : {"user", "assistant"}, content : Contents]

\* A slip ContextItem could have: the answer for the question and back, as
\* at a call that passes inject_rag_context's two texts in the other order.
ContextItemSwapped(question, answer) ==
    [type |-> "conversation.item.create", role |-> "system",
     content_type |-> "input_text",
     text |-> << "Context for the question '", answer, "': ", question >>]

\* inject_rag_context's context_item
ContextItem(question, answer) ==
    [type |-> "conversation.item.create", role |-> "system",
     content_type |-> "input_text",
     text |-> << "Context for the question '", question, "': ", answer >>]

\* The entry logged after a retrieval
RagEntry(question, answer) ==
    [speaker |-> "system", text |-> << "RAG Query: ", question >>,
     rag_response |-> answer]

\* for content in item["content"]: if content.get("type") == "text": append
TextOnly(c) == c.type = "text"
TextEntries(item) ==
    [i \in 1..Len(SelectSeq(item.content, TextOnly)) |->
        [speaker |-> item.role,
         text |-> SelectSeq(item.content, TextOnly)[i].text]]

\* type == 'response.function_call_arguments.delta': the pump yields
\* rag_query; with a question the consumer awaits
\* rag_service.query_knowledge_base, and the pump stays suspended at its yield.
OpenAIRagQuery(question) ==
    /\ ModelIdle
    /\ question \in Questions
    /\ IF question # ""
         THEN /\ Len(conversation_log) < MaxLog
              /\ response' = [type |-> "rag_query", question |-> question,
                              answer |-> None]
              /\ mpc' = "rag_lookup"
         ELSE UNCHANGED << response, mpc >>
    /\ last' = "openai:rag_query"
    /\ UNCHANGED << session, transports, tpc, tsend, msend, dpc, history,
                    rest >>

\* type == 'response.function_call_arguments.delta' whose "arguments" is not
\* an object (a text, as function-call arguments are on the wire): .get on it
\* raises AttributeError in the consumer, outside its async for loop; the
\* except clause of handle_rag_integration logs it and the consumer returns,
\* which ends the pump.
OpenAIRagQueryBadArguments ==
    /\ ModelIdle
    /\ mpc' = "done"
    /\ last' = "openai:rag_query_bad_arguments"
    /\ UNCHANGED << session, transports, tpc, response, tsend, msend, dpc,
                    history, rest >>

\* query_knowledge_base returns (it catches its own errors and answers with
\* an apology); inject_rag_context builds context_item and awaits its send.
RagLookupDone(answer) ==
    /\ mpc = "rag_lookup"
    /\ answer \in Answers
    /\ response' = [response EXCEPT !.answer = Some(answer)]
    /\ msend' = Some(ContextItem(response.question, answer))
    /\ mpc' = "inject_send"
    /\ UNCHANGED << session, transports, tpc, tsend, dpc, last, history,
                    rest >>

\* await openai_ws.send(json.dumps(context_item)) returns, or raises (logged
\* in inject_rag_context); the consumer logs the retrieval and asks the pump
\* for its next event.
InjectDone ==
    /\ mpc = "inject_send"
    /\ conversation_log' =
           Append(conversation_log,
                  RagEntry(response.question, Val(response.answer)))
    /\ msend' = None
    /\ response' = NoResponse
    /\ mpc' = "wait"
    /\ UNCHANGED << session, transports, tpc, tsend, dpc, last, history,
                    hooks, greeting, setupSent, active_sessions,
                    azure_session, metric_saves, endpoints, callLegs >>

\* type == 'conversation.item.created': the pump yields conversation_item,
\* and the consumer logs one entry for each text content of the item.
OpenAIItemCreated(item) ==
    /\ ModelIdle
    /\ item \in Items
    /\ Len(conversation_log) + Len(TextEntries(item)) <= MaxLog
    /\ conversation_log' = conversation_log \o TextEntries(item)
    /\ last' = "openai:item_created"
    /\ UNCHANGED << session, transports, pumps, dpc, history, hooks, greeting,
                    setupSent, active_sessions, azure_session, metric_saves,
                    endpoints, callLegs >>

\* The call leg when create_session has returned and asyncio.gather has
\* started both pumps with the callbacks of media_stream_endpoint.
InitRag ==
    /\ stream_sid = NewSession.stream_sid
    /\ latest_media_timestamp = NewSession.latest_media_timestamp
    /\ response_start_timestamp = NewSession.response_start_timestamp
    /\ last_assistant_item = NewSession.last_assistant_item
    /\ mark_queue = NewSession.mark_queue
    /\ is_active = NewSession.is_active
    /\ openai_open = TRUE
    /\ twilio_open = TRUE
    /\ tpc = "wait"
    /\ mpc = "wait"
    /\ response = NoResponse
    /\ tsend = None
    /\ msend = None
    /\ dpc = "gather"
    /\ hooks = TRUE
    /\ greeting = None
    /\ active_sessions = SessionIds
    /\ azure_session = Some("c1")
    /\ conversation_log = << >>
    /\ metric_saves = 0
    /\ EndpointsIdle
    /\ LegsIdle
    /\ setupSent = << >>
    /\ last = "init"
    /\ audioSends = 0
    /\ sentMarks = 0
    /\ ackedMarks = 0
    /\ playing = FALSE
    /\ firstTs = 0
    /\ lateAcks = 0

\* The call leg with a caller who sends audio and a model that sends the
\* events the consumer handles.
NextRag ==
    \/ \E ts \in 0..MaxTs, p \in MediaPayloads : TwilioMediaReceive(ts, p)
    \/ TwilioAppendDone
    \/ \E outcome \in {"done", "failed"} : TwilioClosed(outcome)
    \/ \E question \in Questions : OpenAIRagQuery(question)
    \/ OpenAIRagQueryBadArguments
    \/ \E answer \in Answers : RagLookupDone(answer)
    \/ InjectDone
    \/ \E item \in Items : OpenAIItemCreated(item)
    \/ \E type \in SideEvents : OpenAISideEvent(type)
    \/ OpenAIClosed
    \/ OpenAIRemoteClose
    \/ TwilioRemoteClose
    \/ GatherReturns
    \/ CleanupCallSession
    \/ CloseSessionDone

\* ===================================================================
\* media_stream_endpoint and cleanup_call_session, for the connections made
\* to the endpoint of one call session.  The relay of each connection is
\* reduced to its end; the call leg in detail is Spec's.
\* ===================================================================
\* The variables of the call leg in detail, at rest.
RelayAtRest ==
    /\ stream_sid = None
    /\ latest_media_timestamp = 0
    /\ response_start_timestamp = None
    /\ last_assistant_item = None
    /\ mark_queue = << >>
    /\ is_active = FALSE
    /\ openai_open = FALSE
    /\ twilio_open = FALSE
    /\ tpc = "new"
    /\ mpc = "new"
    /\ response = NoResponse
    /\ tsend = None
    /\ msend = None
    /\ dpc = "idle"
    /\ greeting = None
    /\ setupSent = << >>
    /\ last = "init"
    /\ audioSends = 0
    /\ sentMarks = 0
    /\ ackedMarks = 0
    /\ playing = FALSE
    /\ firstTs = 0
    /\ lateAcks = 0
relayVars == << session, transports, pumps, dpc, last, history, hooks,
                greeting, setupSent >>

\* The same, with the callbacks media_stream_endpoint passes.
RelayIdle ==
    /\ RelayAtRest
    /\ hooks = TRUE

\* /incoming-call has registered the call session; no connection yet.
InitEndpoint ==
    /\ RelayIdle
    /\ LegsIdle
    /\ EndpointsIdle
    /\ active_sessions = SessionIds
    /\ azure_session = None
    /\ conversation_log = << >>
    /\ metric_saves = 0

\* if call_session_id not in active_sessions
Registered(id, registry) == id \in registry

\* await websocket.accept() returns: with the session registered the endpoint
\* awaits create_session; without, it awaits websocket.close(code=4004) and
\* returns into the finally clause.
EndpointAccept(c) ==
    /\ epc[c].pc = "idle"
    /\ epc' = [epc EXCEPT ![c].pc =
                  IF Registered("CS1", active_sessions) THEN "create_session"
                                                        ELSE "cleanup"]
    /\ UNCHANGED << relayVars, callSession, legws, callLegs >>

\* create_session returns a record with an open model connection, stored in
\* call_session.azure_session (the call session object was fetched before the
\* await), and the pumps run; or it raises.
EndpointCreateSession(c, ok) ==
    /\ epc[c].pc = "create_session"
    /\ IF ok
         THEN /\ legws' = [legws EXCEPT ![c] =
                              [open |-> TRUE, is_active |-> NewSession.is_active,
                               closes |-> 0]]
              /\ azure_session' = Some(c)
              /\ epc' = [epc EXCEPT ![c].pc = "relay"]
         ELSE /\ epc' = [epc EXCEPT ![c].pc = "cleanup"]
              /\ UNCHANGED << legws, azure_session >>
    /\ UNCHANGED << relayVars, active_sessions, conversation_log,
                    metric_saves, callLegs >>

\* asyncio.gather returns or raises: the finally clause is entered.
EndpointRelayEnds(c) ==
    /\ epc[c].pc = "relay"
    /\ epc' = [epc EXCEPT ![c].pc = "cleanup"]
    /\ UNCHANGED << relayVars, callSession, legws, callLegs >>

\* save_call_metrics is called once per cleanup of a registered session.
SaveCount(n, registered) == IF registered THEN n + 1 ELSE n

\* A slip ContinuesAfterSave could have: teardown gives up when the save
\* reports a failure.
StopsOnFailedSave(saved) == saved

\* save_call_metrics catches its own exceptions and returns False; the
\* summary call before it likewise returns a fixed text.  cleanup_call_session
\* does not read the result, and goes on.
ContinuesAfterSave(saved) == TRUE

\* cleanup_call_session up to its first suspension: return when the id is
\* not registered; else save_call_metrics (a coroutine that never suspends),
\* which saves or fails; then, with a record in azure_session, close_session
\* sets is_active and awaits websocket.close(); without one, the id is
\* deleted at once.
\* (generate_conversation_summary fails on the dict entries of the log before
\* it awaits anything, and returns a fixed text.)
CleanupStart(c) ==
    /\ epc[c].pc = "cleanup"
    /\ metric_saves' = SaveCount(metric_saves, Registered("CS1", active_sessions))
    /\ IF Registered("CS1", active_sessions)
         THEN \E saved \in BOOLEAN :
              IF ~ContinuesAfterSave(saved)
                THEN /\ epc' = [epc EXCEPT ![c].pc = "returned"]
                     /\ UNCHANGED << active_sessions, legws >>
              ELSE IF IsSet(azure_session)
                THEN /\ legws' = [legws EXCEPT
                                     ![Val(azure_session)].is_active = FALSE,
                                     ![Val(azure_session)].closes = @ + 1]
                     /\ epc' = [epc EXCEPT ![c] = [pc |-> "close",
                                                   target |-> azure_session,
                                                   close_error |-> FALSE]]
                     /\ UNCHANGED active_sessions
                ELSE /\ active_sessions' = active_sessions \ {"CS1"}
                     /\ epc' = [epc EXCEPT ![c].pc = "returned"]
                     /\ UNCHANGED legws
         ELSE /\ epc' = [epc EXCEPT ![c].pc = "returned"]
              /\ UNCHANGED << active_sessions, legws >>
    /\ UNCHANGED << relayVars, azure_session, conversation_log, callLegs >>

\* A slip RegistryAfterClose could have: the exception of a failed close
\* leaves close_session, and cleanup_call_session's handler skips the rest.
CloseFailureSkipsDelete(registry, id, raised) ==
    IF raised THEN registry ELSE registry \ {id}

\* The registry after close_session: its try/except logs an exception of
\* websocket.close(), so del active_sessions[id] is reached either way.
RegistryAfterClose(registry, id, raised) == registry \ {id}

\* await session_data["websocket"].close() returns, or raises on a
\* connection that is already broken (logged by close_session, close_error);
\* del active_sessions[id] (a KeyError, when another cleanup has deleted the
\* id meanwhile, is logged by cleanup_call_session);
\* websocket_manager.disconnect finds nothing.
CleanupCloseDone(c, raised) ==
    /\ epc[c].pc = "close"
    /\ raised => ~legws[Val(epc[c].target)].open
    /\ legws' = [legws EXCEPT ![Val(epc[c].target)].open = FALSE]
    /\ active_sessions' = RegistryAfterClose(active_sessions, "CS1", raised)
    /\ epc' = [epc EXCEPT ![c] = [pc |-> "returned", target |-> None,
                                  close_error |-> raised]]
    /\ UNCHANGED << relayVars, azure_session, conversation_log, metric_saves,
                    callLegs >>

\* The far end closes a connection's model socket.
ModelSocketCloses(c) ==
    /\ legws[c].open
    /\ legws' = [legws EXCEPT ![c].open = FALSE]
    /\ UNCHANGED << relayVars, callSession, epc, callLegs >>

NextEndpoint ==
    \/ \E c \in Conns : EndpointAccept(c)
    \/ \E c \in Conns, ok \in BOOLEAN : EndpointCreateSession(c, ok)
    \/ \E c \in Conns : EndpointRelayEnds(c)
    \/ \E c \in Conns : CleanupStart(c)
    \/ \E c \in Conns, raised \in BOOLEAN : CleanupCloseDone(c, raised)
    \/ \E c \in Conns : ModelSocketCloses(c)

\* ===================================================================
\* Several call legs: every endpoint invocation calls create_session for a
\* record of its own and passes that record and its own websocket to its two
\* pumps.  Each pump of a leg is suspended in each of its sends, as in Spec,
\* and the other pump of the leg runs meanwhile.  The pumps run with the
\* callbacks of media_stream_endpoint or with none (hooks).  A send on the
\* model socket of a leg fails once the close that close_session awaits has
\* returned; the telephony sockets stay open.  No pump reads is_active: a
\* leg whose record close_session has marked goes on handling events.
\* ===================================================================
InitLegs ==
    /\ RelayAtRest
    /\ hooks \in BOOLEAN
    /\ LegsIdle
    /\ EndpointsIdle
    /\ active_sessions = {}
    /\ azure_session = None
    /\ conversation_log = << >>
    /\ metric_saves = 0

\* The media timestamps of the legs' frames: the least and the largest.
LegTimestamps == {0, MaxTs}
\* The item ids of the legs' audio deltas (a delta without one is Spec's).
LegItems == {Some("item_1")}
\* Tokens pending on a leg when it takes a further audio delta: fewer than
MaxLegMarks == 1

\* A slip Mine could have: one record kept by the service for all legs.
Shared(l) == CHOOSE x \in Legs : TRUE

\* The record and the sockets the pumps of leg l work on: the session_data
\* and twilio_ws arguments its endpoint passes.
Mine(l) == l

\* handle_twilio_to_openai, event == 'media': the timestamp is stored and
\* the send of the frame on the leg's model socket awaited.
LegMedia(l, ts) ==
    /\ lpc[l].tpc = "wait"
    /\ legs' = [legs EXCEPT ![Mine(l)].latest_media_timestamp =
                   StoreTimestamp(@, ts)]
    /\ lpc' = [lpc EXCEPT ![l].tpc = "append_send"]
    /\ outbox' = {}
    /\ UNCHANGED << relayVars, callSession, endpoints >>

\* await openai_ws.send(...) returns, or raises on a closed socket; the
\* exception leaves the pump.
LegAppendDone(l) ==
    /\ lpc[l].tpc = "append_send"
    /\ lpc' = [lpc EXCEPT ![l].tpc =
                  IF lpc[Mine(l)].open THEN "wait" ELSE "failed"]
    /\ outbox' = IF lpc[Mine(l)].open THEN {Mine(l)} ELSE {}
    /\ UNCHANGED << legs, relayVars, callSession, endpoints >>

\* handle_twilio_to_openai, event == 'start': the four assignments, then
\* on_session_start is called and its result awaited.
LegStart(l, sid) ==
    /\ lpc[l].tpc = "wait"
    /\ legs' = [legs EXCEPT ![Mine(l)].stream_sid = Some(sid),
                            ![Mine(l)].response_start_timestamp = None,
                            ![Mine(l)].latest_media_timestamp = 0,
                            ![Mine(l)].last_assistant_item = None]
    /\ lpc' = [lpc EXCEPT ![l].tpc = AfterSessionStart]
    /\ outbox' = {}
    /\ UNCHANGED << relayVars, callSession, endpoints >>

\* handle_twilio_to_openai, event == 'mark'
LegMarkAck(l) ==
    /\ lpc[l].tpc = "wait"
    /\ legs' = [legs EXCEPT ![Mine(l)].mark_queue = PopMark(@)]
    /\ outbox' = {}
    /\ UNCHANGED << lpc, relayVars, callSession, endpoints >>

\* handle_openai_to_twilio, response.audio.delta: _handle_audio_delta builds
\* the media frame and awaits its send.
LegAudioDelta(l, item) ==
    /\ lpc[l].pc = "wait"
    /\ lpc[Mine(l)].open
    /\ Len(legs[Mine(l)].mark_queue) < MaxLegMarks
    /\ lpc' = [lpc EXCEPT ![l].pc = "media_send", ![l].item = item]
    /\ outbox' = {}
    /\ UNCHANGED << legs, relayVars, callSession, endpoints >>

\* The media send returns: anchor and item id are recorded, and _send_mark
\* awaits the send of the mark when the record has a stream id.
LegMediaDone(l) ==
    /\ lpc[l].pc = "media_send"
    /\ legs' = [legs EXCEPT
                   ![Mine(l)].response_start_timestamp =
                       AnchorResponse(@, legs[Mine(l)].latest_media_timestamp),
                   ![Mine(l)].last_assistant_item = RecordItem(@, lpc[l].item)]
    /\ lpc' = [lpc EXCEPT ![l].pc = IF MarkWanted(legs[Mine(l)].stream_sid)
                                      THEN "mark_send" ELSE "wait",
                          ![l].item = None]
    /\ outbox' = {Mine(l)}
    /\ UNCHANGED << relayVars, callSession, endpoints >>

\* The mark send returns: the token is appended.
LegMarkDone(l) ==
    /\ lpc[l].pc = "mark_send"
    /\ legs' = [legs EXCEPT ![Mine(l)].mark_queue = AppendMark(@)]
    /\ lpc' = [lpc EXCEPT ![l].pc = "wait"]
    /\ outbox' = {Mine(l)}
    /\ UNCHANGED << relayVars, callSession, endpoints >>

\* handle_openai_to_twilio, input_audio_buffer.speech_started:
\* _handle_speech_interruption tests for playback in flight and awaits the
\* send of the truncate (with an item id recorded) or of the clear; with
\* nothing in flight it returns and on_speech_started is called and its
\* result awaited.
LegSpeechStarted(l) ==
    /\ lpc[l].pc = "wait"
    /\ lpc[Mine(l)].open
    /\ lpc' = [lpc EXCEPT ![l].pc =
                  IF InFlight(legs[Mine(l)].mark_queue,
                              legs[Mine(l)].response_start_timestamp)
                    THEN IF IsSet(legs[Mine(l)].last_assistant_item)
                           THEN "truncate_send" ELSE "clear_send"
                    ELSE AfterSpeechStarted]
    /\ outbox' = {}
    /\ UNCHANGED << legs, relayVars, callSession, endpoints >>

\* The truncate send (on the leg's model socket) returns, and the clear is
\* sent; or it raises on a closed socket: _handle_speech_interruption logs
\* it and returns with no clear sent and nothing reset, and
\* on_speech_started is called.
LegTruncateDone(l) ==
    /\ lpc[l].pc = "truncate_send"
    /\ lpc' = [lpc EXCEPT ![l].pc =
                  IF lpc[Mine(l)].open THEN "clear_send"
                                       ELSE AfterSpeechStarted]
    /\ outbox' = IF lpc[Mine(l)].open THEN {Mine(l)} ELSE {}
    /\ UNCHANGED << legs, relayVars, callSession, endpoints >>

\* The clear send returns: the reset; then on_speech_started is called.
LegClearDone(l) ==
    /\ lpc[l].pc = "clear_send"
    /\ legs' = [legs EXCEPT ![Mine(l)].mark_queue = << >>,
                            ![Mine(l)].last_assistant_item = None,
                            ![Mine(l)].response_start_timestamp = None]
    /\ lpc' = [lpc EXCEPT ![l].pc = AfterSpeechStarted]
    /\ outbox' = {Mine(l)}
    /\ UNCHANGED << relayVars, callSession, endpoints >>

\* async for openai_message in openai_ws, on a closed socket: the pump ends.
LegModelClosed(l) ==
    /\ lpc[l].pc = "wait"
    /\ ~lpc[Mine(l)].open
    /\ lpc' = [lpc EXCEPT ![l].pc = "done"]
    /\ outbox' = {}
    /\ UNCHANGED << legs, relayVars, callSession, endpoints >>

\* close_session, called by a cleanup of the leg's call session: is_active is
\* set to False and websocket.close() awaited.
LegClose(l) ==
    /\ legs' = [legs EXCEPT ![Mine(l)].is_active = FALSE]
    /\ outbox' = {}
    /\ UNCHANGED << lpc, relayVars, callSession, endpoints >>

\* The websocket.close() that close_session awaits returns: the model
\* socket of the record is closed.
LegCloseDone(l) ==
    /\ ~legs[Mine(l)].is_active
    /\ lpc[Mine(l)].open
    /\ lpc' = [lpc EXCEPT ![Mine(l)].open = FALSE]
    /\ outbox' = {}
    /\ UNCHANGED << legs, relayVars, callSession, endpoints >>

NextLegs ==
    \/ \E l \in Legs, ts \in LegTimestamps : LegMedia(l, ts)
    \/ \E l \in Legs : LegAppendDone(l)
    \/ \E l \in Legs, sid \in StreamSids : LegStart(l, sid)
    \/ \E l \in Legs : LegMarkAck(l)
    \/ \E l \in Legs, item \in LegItems : LegAudioDelta(l, item)
    \/ \E l \in Legs : LegMediaDone(l)
    \/ \E l \in Legs : LegMarkDone(l)
    \/ \E l \in Legs : LegSpeechStarted(l)
    \/ \E l \in Legs : LegTruncateDone(l)
    \/ \E l \in Legs : LegClearDone(l)
    \/ \E l \in Legs : LegModelClosed(l)
    \/ \E l \in Legs : LegClose(l)
    \/ \E l \in Legs : LegCloseDone(l)

\* ===================================================================
\* Properties
\* ===================================================================
Max(a, b) == IF a >= b THEN a ELSE b
Terminated(pc) == pc \in {"done", "failed"}

\* C1: processing a Media frame leaves latest_media_timestamp at the maximum of
\* the stored value and the frame's timestamp (so, within a call leg, at the
\* maximum seen so far), and the frame is forwarded.
C1_LatestIsMaxSeen ==
    [][\A ts \in 0..MaxTs :
          (\E p \in MediaPayloads : TwilioMediaReceive(ts, p)) =>
              /\ latest_media_timestamp' = Max(latest_media_timestamp, ts)
              /\ IsSet(tsend')]_vars

\* C2: every conversation.item.truncate being sent carries audio_end_ms >= 0.
C2_AudioEndNonNegative ==
    mpc = "truncate_send" => Val(msend).audio_end_ms >= 0

\* C3: a speech_started event that finds playback in flight sends one truncate
\* for the recorded item with the elapsed time (none without an item), and the
\* clear frame is sent to telephony after it.
C3_InterruptionSends ==
    [][/\ (OpenAISpeechStarted /\ mark_queue # << >>
             /\ response_start_timestamp # None) =>
            IF last_assistant_item # None
              THEN /\ mpc' = "truncate_send"
                   /\ msend' = Some([type |-> "conversation.item.truncate",
                                     item_id |-> Val(last_assistant_item),
                                     content_index |-> 0,
                                     audio_end_ms |-> latest_media_timestamp
                                         - Val(response_start_timestamp)])
              ELSE /\ mpc' = "clear_send"
                   /\ msend' = Some(TwilioClear(stream_sid))
       /\ (mpc = "truncate_send" /\ mpc' # "truncate_send") =>
            /\ mpc' = "clear_send"
            /\ msend' = Some(TwilioClear(stream_sid))
       /\ mpc' = "clear_send" => mpc \in {"wait", "truncate_send", "clear_send"}
      ]_vars

\* C4: when the handling of an interruption that found playback in flight
\* finishes, mark_queue is empty and the item and the anchor are unset,
\* whatever the outcome of the two sends.
C4_ResetAfterInterruption ==
    [][(mpc \in {"truncate_send", "clear_send"} /\ mpc' \in {"wait", "done"}) =>
          /\ mark_queue' = << >>
          /\ last_assistant_item' = None
          /\ response_start_timestamp' = None]_vars

\* C5: a speech_started event processed with mark_queue empty or the anchor
\* unset sends nothing and leaves mark_queue, last_assistant_item,
\* response_start_timestamp and latest_media_timestamp unchanged.
C5_InterruptionNoOp ==
    [][(OpenAISpeechStarted
          /\ (mark_queue = << >> \/ response_start_timestamp = None)) =>
          /\ msend' = None
          /\ mpc' \notin {"truncate_send", "clear_send"}
          /\ UNCHANGED << mark_queue, last_assistant_item,
                          response_start_timestamp, latest_media_timestamp >>]_vars

\* C5 witness: a speech_started event was the last event received, it found the
\* queue empty with the anchor still set, and its handling is over.
C5_Witness ==
    /\ last = "openai:speech_started"
    /\ mark_queue = << >>
    /\ response_start_timestamp # None
    /\ mpc \in {"wait", "done"}
    /\ msend = None

\* C6 as stated: between two interruptions, and outside the handling of an
\* audio delta, the length of mark_queue is the number of audio deltas
\* processed minus the number of acknowledgments that found a token.
C6_LengthCountsDeltas ==
    mpc \in {"wait", "done"} => Len(mark_queue) = audioSends - ackedMarks

\* C6, what the code keeps instead: between two interruptions the length of
\* mark_queue is the number
\* of mark frames delivered to telephony (one per audio delta processed with
\* the stream id set and both its sends succeeding) minus the number of
\* acknowledgments that found a token; an acknowledgment that finds the queue
\* empty changes no state and leaves the pump waiting for the next message.
C6_LengthCountsMarks ==
    /\ [](/\ Len(mark_queue) = sentMarks - ackedMarks
          /\ ackedMarks <= sentMarks
          /\ sentMarks <= audioSends)
    /\ [][(TwilioMarkAck /\ mark_queue = << >>) =>
            /\ UNCHANGED << session, transports, pumps, dpc, audioSends,
                            sentMarks, ackedMarks, playing, firstTs >>]_vars

\* C6 witness: every mark the bound allows was delivered, and an
\* acknowledgment, the last event received, has popped one token.
C6_Witness ==
    /\ sentMarks = MaxMarks
    /\ ackedMarks = 1
    /\ Len(mark_queue) = MaxMarks - 1
    /\ last = "twilio:mark"
    /\ tpc = "wait"

\* C7: while a response's audio is being relayed, response_start_timestamp is
\* the value latest_media_timestamp had at the first audio delta of that
\* response.
C7_AnchorIsFirstAudio ==
    playing => response_start_timestamp = Some(firstTs)

\* C8: response_start_timestamp is set exactly while the response cycle is
\* Playing (first audio delta processed; no interruption, no response.done and
\* no stream start since).
C8_AnchorSetIffPlaying ==
    (response_start_timestamp # None) <=> playing

\* C9: as soon as either pump has finished, the endpoint leaves gather and
\* starts teardown, without a further inbound event.
C9_TeardownOnFirstFinish ==
    (dpc = "gather" /\ (Terminated(tpc) \/ Terminated(mpc))) =>
        ENABLED GatherReturns

\* C10: a Stop event processed while the model pump is waiting terminates the
\* telephony pump.
C10_StopTerminatesPump ==
    [][(TwilioStop /\ mpc = "wait") => Terminated(tpc')]_vars

\* A step in which the model->telephony pump takes an inbound event.
ModelReceives ==
    \/ \E item \in {None} \cup {Some(i) : i \in ItemIds}, p \in DeltaPayloads :
           OpenAIDeltaReceive(item, p)
    \/ OpenAISpeechStarted
    \/ \E type \in SideEvents : OpenAISideEvent(type)
    \/ \E type \in OtherEvents : OpenAIOtherEvent(type)

\* C11: once media_stream_endpoint has returned, the model transport and the
\* telephony transport are closed and neither pump is still running.
C11_TeardownComplete ==
    dpc = "returned" =>
        /\ ~openai_open
        /\ ~twilio_open
        /\ tpc \in {"new", "done", "failed"}
        /\ mpc \in {"new", "done", "failed"}

\* C12: a malformed inbound message (undecodable JSON, no event/type field, a
\* media timestamp that is no integer, an undecodable audio payload) leaves
\* the pump that received it waiting for the next message and leaves the
\* session record unchanged.
C12_MalformedDropped ==
    [][/\ (\E kind \in MalformedKinds : TwilioMalformed(kind)) =>
            (tpc' = "wait" /\ UNCHANGED session)
       /\ (\E kind \in {"bad_json", "no_type"} : OpenAIMalformed(kind)) =>
            (mpc' = "wait" /\ UNCHANGED session)
       /\ (\E item \in {None} \cup {Some(i) : i \in ItemIds} :
              OpenAIDeltaReceive(item, "Q")) =>
            (mpc' = "wait" /\ msend' = None /\ UNCHANGED session)]_vars

\* C13: a pump that observes a closed transport stops (a failed send to
\* either transport ends the pump that issued it); once the telephony pump
\* has ended on the end of its inbound stream, the model pump takes no
\* further event; and a returned endpoint has run teardown exactly once.
C13_ClosureIsFatal ==
    /\ [][/\ (mpc \in {"media_send", "mark_send", "clear_send"} /\ ~twilio_open
                /\ mpc' # mpc) => Terminated(mpc')
          /\ (mpc = "truncate_send" /\ ~openai_open /\ mpc' # mpc) =>
                Terminated(mpc')
          /\ (tpc = "append_send" /\ ~openai_open /\ tpc' # tpc) =>
                Terminated(tpc')
          /\ tpc = "done" => ~ModelReceives]_vars
    /\ [](dpc = "returned" => metric_saves = 1)

\* C14: a cleanup of a call session that is no longer registered changes
\* nothing (no save, no close, no change of the call session or of any
\* record); and over all cleanups of one call session, save_call_metrics is
\* called at most once and no model connection is closed more than once.
C14_TeardownIdempotent ==
    /\ [][\A c \in Conns :
            (CleanupStart(c) /\ "CS1" \notin active_sessions) =>
                UNCHANGED << callSession, legws >>]_vars
    /\ [](/\ metric_saves <= 1
          /\ \A c \in Conns : legws[c].closes <= 1)

\* C15: no two sends to the model transport are in progress at once: while the
\* telephony pump's audio append is being sent, no truncate and no context
\* injection is being sent.  (Every send to the telephony transport is issued
\* by the model pump, one at a time.)
C15_SendsSerialized ==
    ~(tpc = "append_send" /\ mpc \in {"truncate_send", "inject_send"})

\* C16: a pump is suspended only waiting for its next inbound message or
\* completing a send on a transport; in particular the model pump never
\* waits for the retrieval lookup.
C16_OnlyTransportWaits ==
    /\ tpc \in {"new", "wait", "append_send", "done", "failed"}
    /\ mpc \in {"new", "wait", "media_send", "mark_send", "truncate_send",
                "clear_send", "inject_send", "done"}

\* C17: every step of an interruption either leaves mark_queue,
\* last_assistant_item and response_start_timestamp all unchanged or resets
\* all three, so no state between two steps (which is all the telephony pump
\* can observe) has some of them reset and not the others; and the truncate
\* instruction an interruption sends is built from the queue, the item id and
\* the two timestamps of the one state in which the event was taken.
C17_ResetAtomic ==
    [][/\ (mpc \in {"truncate_send", "clear_send"} /\ mpc' # mpc) =>
            \/ UNCHANGED << mark_queue, last_assistant_item,
                            response_start_timestamp >>
            \/ /\ mark_queue' = << >>
               /\ last_assistant_item' = None
               /\ response_start_timestamp' = None
       /\ (mpc = "wait" /\ mpc' = "truncate_send") =>
            /\ mark_queue # << >>
            /\ response_start_timestamp # None
            /\ last_assistant_item # None
            /\ Val(msend').item_id = Val(last_assistant_item)
            /\ Val(msend').audio_end_ms =
                   latest_media_timestamp - Val(response_start_timestamp)
       /\ (mpc = "truncate_send" /\ mpc' = "truncate_send") =>
            msend' = msend]_vars

\* C17 witness: an interruption has sent its truncate and is sending the clear
\* frame; meanwhile the telephony pump has taken a media frame, whose append
\* is still being sent; the reset is about to be applied.
C17_Witness ==
    /\ mpc = "clear_send"
    /\ IsSet(last_assistant_item)
    /\ last = "twilio:media"
    /\ tpc = "append_send"
    /\ twilio_open

\* A step in which a pump of leg l handles an inbound event.
PumpStep(l) ==
    \/ \E ts \in LegTimestamps : LegMedia(l, ts)
    \/ LegAppendDone(l)
    \/ \E sid \in StreamSids : LegStart(l, sid)
    \/ LegMarkAck(l)
    \/ \E item \in LegItems : LegAudioDelta(l, item)
    \/ LegMediaDone(l)
    \/ LegMarkDone(l)
    \/ LegSpeechStarted(l)
    \/ LegTruncateDone(l)
    \/ LegClearDone(l)
    \/ LegModelClosed(l)

\* C18: an event handled by a pump of one call leg leaves the session record (stream id,
\* latest_media_timestamp, response_start_timestamp, last_assistant_item,
\* mark_queue, is_active) of every other leg unchanged and sends no frame on
\* another leg's transports.
C18_LegsIndependent ==
    [][\A l \in Legs :
          PumpStep(l) =>
              /\ \A o \in Legs \ {l} : legs'[o] = legs[o]
              /\ outbox' \subseteq {l}]_vars

\* C18 witness: leg A has an unacknowledged mark from its own audio, leg B a
\* stream id, no mark and the largest timestamp, and the last step was a send
\* on leg B's transports.
C18_Witness ==
    /\ legs["A"].mark_queue # << >>
    /\ legs["B"].mark_queue = << >>
    /\ IsSet(legs["B"].stream_sid)
    /\ legs["B"].latest_media_timestamp = MaxTs
    /\ legs["A"].latest_media_timestamp = 0
    /\ outbox = {"B"}

\* C19: a speech_started event taken when the inbound event before it, on
\* either transport, was a speech_started too (so no audio delta lies between
\* the two, and a truncate the first one issued was delivered, the model
\* transport being still open) issues no truncate and changes no field of
\* the session record.
C19_SecondInterruptionNoOp ==
    [][(OpenAISpeechStarted /\ last = "openai:speech_started") =>
          /\ mpc' # "truncate_send"
          /\ UNCHANGED session]_vars

\* C20: when create_session has built the record it returns, it has sent on
\* the model transport, in this order: one session.update that enables
\* server_vad turn detection with one audio format for input and output;
\* then, exactly when a non-empty greeting text was given, one
\* conversation.item.create carrying the text followed by one
\* response.create; nothing else.  The record handed to the pumps has
\* latest_media_timestamp 0, an empty mark_queue, no response_start_timestamp,
\* no last_assistant_item and is_active true.
C20_SetupSequence ==
    /\ [](dpc = "session_ready" =>
            /\ Len(setupSent) = IF greeting \in {None, Some("")} THEN 1 ELSE 3
            /\ setupSent[1].type = "session.update"
            /\ setupSent[1].turn_detection = "server_vad"
            /\ setupSent[1].input_audio_format = setupSent[1].output_audio_format
            /\ Len(setupSent) = 3 =>
                 /\ setupSent[2].type = "conversation.item.create"
                 /\ setupSent[2].text[2] = Val(greeting)
                 /\ setupSent[3] = [type |-> "response.create"])
    /\ [][(dpc = "session_ready" /\ dpc' = "gather") =>
            /\ latest_media_timestamp' = 0
            /\ mark_queue' = << >>
            /\ response_start_timestamp' = None
            /\ last_assistant_item' = None
            /\ is_active'
            /\ tpc' = "wait" /\ mpc' = "wait"]_vars

\* C20 witness: a greeting text was given, the three frames are sent and the
\* record is about to be returned.
C20_Witness ==
    /\ dpc = "session_ready"
    /\ greeting = Some("Hello")
    /\ Len(setupSent) = 3

\* C21: a retrieval query event with a non-empty question makes the consumer
\* call the retrieval service once, with that question (and the call session
\* id of the endpoint), and then issue one send to the model transport of
\* this session: a conversation.item.create with role system whose text
\* names that question and carries the answer the service returned.  The
\* lookup is started by nothing else, the send follows nothing but a lookup,
\* and after the send the pump waits for its next event.
C21_QueryThenInject ==
    [][/\ \A q \in Questions \ {""} :
            OpenAIRagQuery(q) =>
                /\ mpc' = "rag_lookup"
                /\ response'.question = q
                /\ msend' = None
       /\ (mpc = "rag_lookup" /\ mpc' # mpc) =>
            /\ mpc' = "inject_send"
            /\ response'.question = response.question
            /\ IsSet(response'.answer)
            /\ Val(response'.answer) \in Answers
            /\ msend' = Some([type |-> "conversation.item.create",
                              role |-> "system",
                              content_type |-> "input_text",
                              text |-> << "Context for the question '",
                                          response.question, "': ",
                                          Val(response'.answer) >>])
       /\ (mpc' = "rag_lookup" /\ mpc # mpc') =>
            (mpc = "wait" /\ last' = "openai:rag_query")
       /\ (mpc' = "inject_send" /\ mpc # mpc') => mpc = "rag_lookup"
       /\ (mpc = "inject_send" /\ mpc' # mpc) =>
            (mpc' = "wait" /\ msend' = None)]_vars

\* C21 witness: the answer to a question is being sent to the open model
\* transport as the context item.
C21_Witness ==
    /\ mpc = "inject_send"
    /\ openai_open
    /\ response.question = "opening hours?"
    /\ response.answer = Some("9 to 5")
    /\ IsSet(msend)

\* C22: every conversation.item.created event adds exactly one entry to the
\* conversation log, at its end, with the item's role as the speaker; the
\* entries already logged keep their places.
C22_OneEntryPerItem ==
    [][\A item \in Items :
          OpenAIItemCreated(item) =>
              /\ Len(conversation_log') = Len(conversation_log) + 1
              /\ SubSeq(conversation_log', 1, Len(conversation_log))
                     = conversation_log
              /\ conversation_log'[Len(conversation_log')].speaker
                     = item.role]_vars

\* C23: processing a start event stores the frame's streamSid as the stream
\* id of the session record and leaves response_start_timestamp unset,
\* latest_media_timestamp 0 and last_assistant_item unset, whatever they were.
C23_StartedEffects ==
    [][\A sid \in StreamSids :
          TwilioStart(sid) =>
              /\ stream_sid' = Some(sid)
              /\ response_start_timestamp' = None
              /\ latest_media_timestamp' = 0
              /\ last_assistant_item' = None]_vars

\* C23 witness: a start event, the last event received, was processed in the
\* middle of a call (marks of relayed audio are still pending, so the anchor
\* was set before it) and has left the three fields at their initial values.
C23_Witness ==
    /\ last = "twilio:start"
    /\ mark_queue # << >>
    /\ stream_sid = Some("MZ1")
    /\ response_start_timestamp = None
    /\ latest_media_timestamp = 0
    /\ last_assistant_item = None

\* C24: while both transports are open every media frame received is
\* followed by one audio-buffer append that carries the frame's payload, and
\* every audio delta received is followed by one media frame to telephony
\* that carries the delta's payload, each before the pump takes its next
\* event (so the payloads sent are the payloads received, in order, none
\* changed, repeated or left out).
C24_LosslessInOrder ==
    [][/\ \A ts \in 0..MaxTs, p \in MediaPayloads :
            (TwilioMediaReceive(ts, p) /\ openai_open /\ twilio_open) =>
                (tpc' = "append_send" /\ tsend' = Some(AudioAppend(p)))
       /\ \A item \in {None} \cup {Some(i) : i \in ItemIds},
             p \in DeltaPayloads :
            (OpenAIDeltaReceive(item, p) /\ openai_open /\ twilio_open) =>
                /\ mpc' = "media_send"
                /\ IsSet(msend')
                /\ Val(msend').payload = p]_vars

\* C25: mark_queue is changed in three ways only.  A token is put at its
\* tail when the mark frame of an audio send has been delivered, before the
\* model pump takes its next event (so in the order of the audio sends); a
\* mark acknowledgment that finds tokens removes the one at the head, the
\* oldest, and no other; and the reset of an interruption removes all tokens
\* in one step.
C25_MarkQueueFifo ==
    [][/\ (TwilioMarkAck /\ mark_queue # << >>) =>
            /\ Len(mark_queue') = Len(mark_queue) - 1
            /\ \A i \in 1..Len(mark_queue') : mark_queue'[i] = mark_queue[i + 1]
       /\ (mark_queue' # mark_queue /\ ~TwilioMarkAck) =>
            \/ /\ mpc = "mark_send" /\ mpc' = "wait"
               /\ Len(mark_queue') = Len(mark_queue) + 1
               /\ \A i \in 1..Len(mark_queue) : mark_queue'[i] = mark_queue[i]
            \/ /\ mpc = "clear_send"
               /\ mark_queue' = << >>
       /\ audioSends' > audioSends =>
            /\ mpc = "media_send"
            /\ audioSends' = audioSends + 1
            /\ IsSet(stream_sid) => mpc' = "mark_send"]_vars

\* C25 witness: two audio sends had their tokens appended, one
\* acknowledgment has removed the older, and an interruption is about to
\* remove what is pending.
C25_Witness ==
    /\ mpc = "clear_send"
    /\ twilio_open
    /\ sentMarks = MaxMarks
    /\ ackedMarks = 1
    /\ Len(mark_queue) = MaxMarks - 1

\* C26: for a conversation.item.created, a
\* response.function_call_arguments.delta or a response.done event the model
\* pump yields exactly one side-channel event, tagged with the session id,
\* and the step leaves mark_queue, last_assistant_item,
\* response_start_timestamp, latest_media_timestamp and the stream id
\* unchanged, sends nothing and leaves the pump waiting for its next event.
C26_SideEventsLeaveState ==
    [][\A type \in SideEvents :
          OpenAISideEvent(type) =>
              /\ \A sid \in SessionIds :
                    /\ Len(Yields(type, sid)) = 1
                    /\ Yields(type, sid)[1].session_id = sid
              /\ UNCHANGED << mark_queue, last_assistant_item,
                              response_start_timestamp,
                              latest_media_timestamp, stream_sid >>
              /\ msend' = None
              /\ mpc' = "wait"]_vars

\* C26 witness: a response.done event, the last event received, was
\* processed while a mark was pending and the anchor and the item were set.
C26_Witness ==
    /\ last = "openai:response_done"
    /\ mark_queue # << >>
    /\ IsSet(response_start_timestamp)
    /\ IsSet(last_assistant_item)
    /\ IsSet(stream_sid)
    /\ latest_media_timestamp = MaxTs

\* C27: an error event from the model transport changes no field of the
\* session record, sends nothing on either transport and leaves the model
\* pump waiting for its next message; while the transport stays open the
\* pump can take the next model event.
C27_ErrorNonFatal ==
    /\ [][OpenAIOtherEvent("error") =>
            /\ UNCHANGED session
            /\ msend' = None
            /\ tsend' = tsend
            /\ mpc' = "wait"
            /\ UNCHANGED << transports, dpc >>]_vars
    /\ []((last = "openai:error" /\ mpc = "wait" /\ openai_open) =>
            /\ ENABLED OpenAISpeechStarted
            /\ ENABLED OpenAIOtherEvent("error"))

\* C27 witness: an error event, the last event received, was processed in
\* the middle of a response (a mark pending, the anchor set) and the pump
\* waits on the open transport.
C27_Witness ==
    /\ last = "openai:error"
    /\ mpc = "wait"
    /\ openai_open
    /\ mark_queue # << >>
    /\ IsSet(response_start_timestamp)

\* C28: whenever a transport of the call leg has closed, or its endpoint has
\* returned from teardown, is_active of the session record is false.
C28_InactiveAfterClose ==
    (~openai_open \/ ~twilio_open \/ dpc = "returned") => ~is_active

\* C29: when the close of the model connection fails in teardown, on a
\* connection that is already broken, the failure stays inside teardown: the
\* endpoint returns normally, the call session is removed from
\* active_sessions in the same step, the record stays inactive and no
\* metrics are saved again.
C29_TeardownBestEffort ==
    /\ [][\A c \in Conns :
            CleanupCloseDone(c, TRUE) =>
                /\ epc'[c].pc = "returned"
                /\ "CS1" \notin active_sessions'
                /\ ~legws'[Val(epc[c].target)].is_active
                /\ metric_saves' = metric_saves]_vars
    /\ [](\A c \in Conns :
            epc[c].close_error =>
                (epc[c].pc = "returned" /\ "CS1" \notin active_sessions))

\* C29 witness: a teardown whose close failed on a connection the far end had
\* closed before has returned, and the call session is no longer registered.
C29_Witness ==
    \E c \in Conns :
        /\ epc[c].pc = "returned"
        /\ epc[c].close_error
        /\ ~legws[c].open
        /\ legws[c].closes = 1
        /\ "CS1" \notin active_sessions
        /\ metric_saves = 1

\* C30: the token of a mark is in mark_queue before the telephony pump can
\* process the acknowledgment of that mark.  The telephony side acknowledges
\* marks in order, so an acknowledgment processed while a mark frame is being
\* sent is that of an older mark, whose token is pending, and never finds the
\* queue empty.
C30_TokenBeforeAck ==
    [][(TwilioMarkAck /\ mpc = "mark_send") => mark_queue # << >>]_vars

\* C31: every frame being sent to the telephony transport carries the stream
\* id of the session: a media or a clear frame never has an unset streamSid,
\* and a mark frame has one of the stream ids the telephony side gave.
C31_FramesCarryStreamId ==
    /\ mpc \in {"media_send", "clear_send"} => Val(msend).streamSid # None
    /\ mpc = "mark_send" => Val(msend).streamSid \in StreamSids

\* C32: an acknowledgment of a mark that was sent before an interruption, and
\* is processed after that interruption has cleared the queue, removes no
\* token: mark_queue, which then holds the tokens of a later response only,
\* is the same after the acknowledgment.  (The telephony side acknowledges
\* marks in order, so while marks removed by a reset are unacknowledged the
\* next acknowledgment is one of theirs.)
C32_LateAckKeepsTokens ==
    [][(TwilioMarkAck /\ lateAcks > 0) => mark_queue' = mark_queue]_vars

\* C33: when every endpoint invocation for the call session has returned from
\* teardown, every model connection opened for the session is closed.
C33_AllConnectionsClosed ==
    (\A c \in Conns : epc[c].pc = "returned") =>
        \A c \in Conns : ~legws[c].open

\* C34: handling a retrieval query event never ends the model pump while the
\* model transport is open: neither when the lookup fails (the retrieval
\* service answers with its apology) nor when the question cannot be
\* extracted from the event; the pump goes on to its next event.
C34_RetrievalFailureNonFatal ==
    [][/\ (mpc = "rag_lookup" /\ mpc' # mpc) => ~Terminated(mpc')
       /\ (mpc = "inject_send" /\ mpc' # mpc) => mpc' = "wait"
       /\ (OpenAIRagQueryBadArguments /\ openai_open') => mpc' = "wait"]_vars

\* C35: once an invocation of the media-stream endpoint for the call session
\* has returned, the session id is not in active_sessions, whether the save
\* of the metrics succeeded or failed, whether the close of the model
\* connection returned or raised, and whether or not another teardown of the
\* same session had deleted the id first.
C35_UnregisteredAfterReturn ==
    \A c \in Conns : epc[c].pc = "returned" => "CS1" \notin active_sessions

\* C35 witness: two invocations have returned from overlapping teardowns
\* (each saved metrics, the second found the id already deleted), one of them
\* after a close that raised, and the id is not registered.
C35_Witness ==
    /\ \A c \in Conns : epc[c].pc = "returned"
    /\ \E c \in Conns : epc[c].close_error
    /\ metric_saves = 2
    /\ "CS1" \notin active_sessions

\* C36: processing a start event leaves mark_queue as it was, so the tokens
\* appended before it stay pending; and the in-flight check of an
\* interruption reads that queue: with a token pending and the anchor set, a
\* speech_started event sends the truncate or the clear.
C36_StartKeepsMarks ==
    [][/\ \A sid \in StreamSids :
            TwilioStart(sid) => mark_queue' = mark_queue
       /\ (OpenAISpeechStarted /\ mark_queue # << >>
             /\ response_start_timestamp # None) =>
            mpc' \in {"truncate_send", "clear_send"}]_vars

\* C36 witness: a start event, the last event received, was processed with
\* as many tokens pending as the bound allows; they are pending still (the
\* anchor is unset only because of that start) and the pump goes on.
C36_Witness ==
    /\ last = "twilio:start"
    /\ Len(mark_queue) = MaxMarks
    /\ response_start_timestamp = None
    /\ tpc = "wait"
    /\ mpc = "wait"

\* C37: in every reachable state, whatever the interleaving of the two pumps,
\* a recorded last_assistant_item comes with a response_start_timestamp.
C37_ItemImpliesAnchor ==
    IsSet(last_assistant_item) => response_start_timestamp # None

\* C37 witness: an audio delta recorded the anchor and the item id, its mark
\* send is suspended, and the telephony pump processed an event meanwhile.
C37_Witness ==
    /\ IsSet(last_assistant_item)
    /\ response_start_timestamp # None
    /\ mpc = "mark_send"
    /\ last \in {"twilio:media", "twilio:mark"}

\* C38: a media send of an audio delta that fails changes no field of the
\* session, sends no mark, and leaves the model->telephony pump waiting for
\* the next event; a mark send that fails appends no token and leaves the
\* pump waiting as well.
C38_FailedSendKeepsState ==
    [][/\ (mpc = "media_send" /\ mpc' # mpc /\ ~twilio_open) =>
            /\ UNCHANGED << session, sentMarks, audioSends >>
            /\ msend' = None
            /\ mpc' = "wait"
       /\ (mpc = "mark_send" /\ mpc' # mpc /\ ~twilio_open) =>
            /\ mark_queue' = mark_queue
            /\ mpc' = "wait"]_vars

\* C38 witness: the media frame of an audio delta is being sent on a closed
\* telephony transport, with a token pending, the anchor set and an item id
\* recorded that differs from the one the delta carries.
C38_Witness ==
    /\ mpc = "media_send"
    /\ ~twilio_open
    /\ openai_open
    /\ mark_queue # << >>
    /\ response_start_timestamp # None
    /\ IsSet(last_assistant_item)
    /\ IsSet(response.item_id)
    /\ response.item_id # last_assistant_item

Spec == Init /\ [][Next]_vars
SpecRag == InitRag /\ [][NextRag]_vars
SpecEndpoint == InitEndpoint /\ [][NextEndpoint]_vars
SpecLegs == InitLegs /\ [][NextLegs]_vars
====
